---- MODULE Spec2Model ----
(***************************************************************************)
(* Terminal chatbot (src/main.py): ChatMemory, Scratchpad and the chat     *)
(* loop of TerminalChatbot.run with the retry loop of call_groq_api.       *)
(*                                                                         *)
(* One chat turn is split at the only place where the program waits: the   *)
(* HTTP request of one retry attempt.  ReadUtterance is the part of the    *)
(* turn up to the first requests.post; PostRequest is one iteration of the *)
(* retry loop and, when the loop returns or raises, the rest of            *)
(* get_llm_response and of the loop body of run().                         *)
(***************************************************************************)
EXTENDS Integers, Sequences, FiniteSets, TLC

\* ------------------------------------------------------------------ bounds
MaxTurns == 4        \* chat turns since the last clear of the memory
MaxFaultyTurns == 1  \* chat turns of one session in which a request fails
MaxNotes == 1        \* notes in the scratchpad
MaxPages == 2        \* pages of a PDF document

\* ------------------------------------------------------- program constants
MAX_MEMORY_SIZE == 3
MAX_RETRIES == 3
DocumentedMemorySize == 10   \* "Chat memory (last 10 exchanges)", module docstring

\* ------------------------------------------------------------------ values
NoneValue == "<None>"        \* Python None
NoInput == "<no input>"      \* user_input before the first input() returns
NoOutcome == [kind |-> "none", detail |-> ""]

Utterances == {"u1", "u2"}     \* chat messages, as run() has stripped them
BlankLines == {"", "   "}      \* lines that are empty after trimming
CommandLines ==
    {"/quit", "/exit", "/QUIT", "/help", "/clear", "/status", "/bogus",
     "/scratchpad", "/scratchpad clear", "/scratchpad Fuel"}

\* The lines input() can return.
RawLines == BlankLines \cup {"u1", " u2 "} \cup CommandLines

\* Non-empty completion texts, and every value data[...]["content"] can have.
Replies == {"r1"}
Completions == Replies \cup {"", NoneValue}

\* What one requests.post can end in.
\*   ok        status 200, JSON body of the expected shape, content = detail
\*   status    a status other than 200 (detail)
\*   timeout   requests.exceptions.Timeout
\*   neterr    another requests.exceptions.RequestException
\*   notjson   status 200, body is not JSON: response.json() raises
\*   keyerr    status 200, JSON object lacking choices / message / content
\*   indexerr  status 200, "choices" is an empty list
\*   typeerr   status 200, "choices" (or the body) has the wrong type
Outcomes ==
    [kind : {"ok"}, detail : Completions]
        \cup [kind : {"status"}, detail : {"500"}]
        \cup [kind : {"timeout", "neterr", "notjson", "keyerr", "indexerr", "typeerr"},
              detail : {""}]

\* What response.json() raises on a body that is not JSON depends on the
\* libraries installed with the program ("pip install colorama requests"):
\*   RequestException  requests >= 2.27: requests.exceptions.JSONDecodeError,
\*                     a RequestException and a json.JSONDecodeError
\*   JSONDecodeError   older requests: json.JSONDecodeError
\*   ValueError        older requests with simplejson: simplejson's error, a
\*                     ValueError that is no json.JSONDecodeError
JsonErrorClasses == {"RequestException", "JSONDecodeError", "ValueError"}

TransientKinds == {"timeout", "neterr", "status"}
MalformedKinds == {"notjson", "keyerr", "indexerr", "typeerr"}

VARIABLES
    messages,       \* ChatMemory.messages: the deque of exchanges, oldest first
    notes,          \* Scratchpad.notes
    pc,             \* "input": run() waits in input(); "post": a request is in
                    \* flight; "exited": run() has finished
    user_input,     \* get_llm_response: the utterance of the current (or last) turn
    attempt,        \* call_groq_api: the loop variable
    payload,        \* call_groq_api: payload["messages"] of the turn in flight
    requests_sent,  \* requests.post calls of the current (or last) turn
    last_outcome,   \* how the most recent requests.post ended
    response,       \* run(): what get_llm_response returned last
    exit_cause,     \* why run() finished
    json_error_class,
                    \* the installed libraries: the class of the error raised by
                    \* response.json(), see JsonErrorClasses
    turn_log,       \* history: the chat turns completed since the last clear
    faults,         \* history: chat turns of the session in which a request failed
    tool_call       \* tools/: the last call of a helper, with what it returned

vars == <<messages, notes, pc, user_input, attempt, payload, requests_sent,
          last_outcome, response, exit_cause, json_error_class,
          turn_log, faults, tool_call>>

\* --------------------------------------------------------------- utilities
Min(a, b) == IF a < b THEN a ELSE b

LastK(s, k) == SubSeq(s, Len(s) - Min(k, Len(s)) + 1, Len(s))

\* Python truthiness of an Optional[str]
Truthy(x) == x \notin {"", NoneValue}

\* --------------------------------------------------------------- ChatMemory
\* deque(maxlen=max_size).append: a full deque drops its leftmost item
\* mutant: a deque without maxlen
deque_append_unbounded(d, x, maxlen) == Append(d, x)

\* mutant: a full deque refuses the new item
deque_append_keep_oldest(d, x, maxlen) ==
    IF Len(d) >= maxlen THEN d ELSE Append(d, x)

deque_append(d, x, maxlen) ==
    IF Len(d) >= maxlen THEN Tail(Append(d, x)) ELSE Append(d, x)

\* mutant: a full memory starts over with the new exchange
add_exchange_restart(msgs, user_message, assistant_message) ==
    IF Len(msgs) >= MAX_MEMORY_SIZE
    THEN <<[user |-> user_message, assistant |-> assistant_message]>>
    ELSE Append(msgs, [user |-> user_message, assistant |-> assistant_message])

add_exchange(msgs, user_message, assistant_message) ==
    deque_append(msgs,
                 [user |-> user_message, assistant |-> assistant_message],
                 MAX_MEMORY_SIZE)

RECURSIVE get_context_messages(_)
get_context_messages(msgs) ==
    IF msgs = <<>> THEN <<>>
    ELSE <<[role |-> "user", content |-> Head(msgs).user],
           [role |-> "assistant", content |-> Head(msgs).assistant]>>
         \o get_context_messages(Tail(msgs))

clear_memory(msgs) == <<>>

\* --------------------------------------------------------------- Scratchpad
add_note(ns, note) == IF note /= "" THEN Append(ns, note) ELSE ns

clear_notes(ns) == <<>>

\* ---------------------------------------------------------- TerminalChatbot
system_prompt == [role |-> "system", content |-> "DGCA directive"]

\* mutant: the utterance is put in front of the history
context_messages_utterance_first(msgs, utterance) ==
    <<[role |-> "user", content |-> utterance]>> \o get_context_messages(msgs)

\* get_llm_response: the context handed to call_groq_api
context_messages(msgs, utterance) ==
    Append(get_context_messages(msgs), [role |-> "user", content |-> utterance])

\* mutant: the directive is added to a context that is given one already
build_payload_twice(ctx) == <<system_prompt, system_prompt>> \o ctx

\* call_groq_api: payload["messages"]
build_payload(ctx) == <<system_prompt>> \o ctx

ApiErrorText(status) == "[x] API Error " \o status
TimeoutText == "[x] Request timed out. Please try again."
NetworkErrorText(e) == "[x] Network error: " \o e
InvalidFormatText(e) == "[x] Invalid API response format: " \o e
NoResponseText == "[x] Failed to get response from LLM."

\* One iteration of the retry loop: what it does with the outcome o of the
\* request.  tag "return": call_groq_api returns value; "retry": the loop goes
\* on; "raise": the exception matches no except clause and leaves the function.
\* The except clauses are tried in source order, so an error of response.json()
\* that is a RequestException is taken by the network-error clause.
\* Every branch of the last iteration returns or raises, so the return after
\* the loop (line 441) is never reached; GROQ_API_KEY is set, so the check of
\* the placeholder key (line 394) never returns.
retry_step(o, att, jsonErrorClass) ==
    LET last == (att = MAX_RETRIES - 1)
        retryOr(text) == IF last THEN [tag |-> "return", value |-> text]
                         ELSE [tag |-> "retry", value |-> NoneValue]
    IN CASE o.kind = "ok" -> [tag |-> "return", value |-> o.detail]
         [] o.kind = "status" -> retryOr(ApiErrorText(o.detail))
         [] o.kind = "timeout" -> retryOr(TimeoutText)
         [] o.kind = "neterr" -> retryOr(NetworkErrorText("connection failed"))
         [] o.kind = "notjson" ->
                CASE jsonErrorClass = "RequestException" ->
                         retryOr(NetworkErrorText("Expecting value"))
                  [] jsonErrorClass = "JSONDecodeError" ->
                         [tag |-> "return", value |-> InvalidFormatText("Expecting value")]
                  [] OTHER -> [tag |-> "raise", value |-> NoneValue]
         [] o.kind = "keyerr" ->
                [tag |-> "return", value |-> InvalidFormatText("'choices'")]
         [] OTHER -> [tag |-> "raise", value |-> NoneValue]

\* mutant: the exchange is stored whatever call_groq_api returned
memory_after_response_unconditional(msgs, utterance, r) ==
    add_exchange(msgs, utterance, r)

\* get_llm_response, after call_groq_api returned r
memory_after_response(msgs, utterance, r) ==
    IF Truthy(r) THEN add_exchange(msgs, utterance, r) ELSE msgs

returned_text(r) == IF Truthy(r) THEN r ELSE NoResponseText

\* run(): input(...).strip(), on the lines of RawLines
strip_line(raw) ==
    CASE raw = "   " -> ""
      [] raw = " u2 " -> "u2"
      [] OTHER -> raw

\* run(): user_input.startswith('/'), on the stripped lines of RawLines
starts_with_slash(line) == line \in CommandLines

\* mutant: the test for an empty line is missing
run_dispatch_no_blank_test(line) ==
    IF starts_with_slash(line) THEN "command" ELSE "chat"

\* run(): what the loop body does with the stripped line
run_dispatch(line) ==
    IF line = "" THEN "continue"
    ELSE IF starts_with_slash(line) THEN "command"
    ELSE "chat"

\* handle_command: command.lower().strip(), on the lines of CommandLines
lower_strip(line) ==
    CASE line = "/QUIT" -> "/quit"
      [] line = "/scratchpad Fuel" -> "/scratchpad fuel"
      [] OTHER -> line

\* handle_scratchpad_command: command.split(None, 1)
scratchpad_parts(command) ==
    CASE command = "/scratchpad clear" -> <<"/scratchpad", "clear">>
      [] command = "/scratchpad fuel" -> <<"/scratchpad", "fuel">>
      [] OTHER -> <<command>>

IsScratchpadCommand(command) ==
    command \in {"/scratchpad", "/scratchpad clear", "/scratchpad fuel"}

\* mutant: an unknown command ends the session like /quit
handle_command_branch_unknown_quits(command) ==
    CASE command \in {"/quit", "/exit"} -> "quit"
      [] command = "/help" -> "help"
      [] command = "/clear" -> "clear"
      [] IsScratchpadCommand(command) -> "scratchpad"
      [] command = "/status" -> "status"
      [] OTHER -> "quit"

\* handle_command: the branch of the if / elif chain taken
handle_command_branch(command) ==
    CASE command \in {"/quit", "/exit"} -> "quit"
      [] command = "/help" -> "help"
      [] command = "/clear" -> "clear"
      [] IsScratchpadCommand(command) -> "scratchpad"
      [] command = "/status" -> "status"
      [] OTHER -> "unknown"

\* handle_command: the value returned, TRUE to go on with the session
handle_command_returns(command) == handle_command_branch(command) /= "quit"

\* run(): the branch of handle_command a raw line reaches, "none" if it is no
\* command
command_branch_of(raw) ==
    IF run_dispatch(strip_line(raw)) = "command"
    THEN handle_command_branch(lower_strip(strip_line(raw)))
    ELSE "none"

\* run() on each raw line, tabulated: the branch of the loop body, the branch
\* of handle_command, and whether handle_command returns True
line_dispatch == [raw \in RawLines |-> run_dispatch(strip_line(raw))]

line_branch == [raw \in RawLines |-> command_branch_of(raw)]

line_returns ==
    [raw \in RawLines |-> handle_command_returns(lower_strip(strip_line(raw)))]

\* ------------------------------------------------ tools/language_tool.py
NoCall == [fn |-> "none"]

Texts == {"", "hello", "bonjour"}
Languages == {"en", "fr", "xx"}

\* What a call into langdetect or deep_translator can end in: a value, or an
\* exception.  KeyboardInterrupt stands for the exceptions that are no
\* subclass of Exception.
RaisedClasses == {"LangDetectException", "RequestException", "KeyboardInterrupt"}
LibraryOutcomes(values) ==
    [kind : {"ok"}, value : values] \cup [kind : {"raise"}, value : RaisedClasses]

\* GoogleTranslator(source, target).translate(text), when it succeeds
Translated(text, source, target) == text \o " [" \o source \o "->" \o target \o "]"

\* detect_language(text); detected is what detect(text) ends in
detect_language(text, detected) ==
    IF detected.kind = "ok"
    THEN [tag |-> "return", value |-> detected.value]
    ELSE [tag |-> "return", value |-> "en"]        \* bare except

\* mutant: "except Exception" in place of the bare except, and no fallback text
translate_text_narrow_except(text, target_lang, reverse, translator_fails) ==
    LET source == IF reverse THEN "en" ELSE target_lang
        target == IF reverse THEN target_lang ELSE "en"
    IN IF translator_fails = "no"
       THEN [tag |-> "return", value |-> Translated(text, source, target)]
       ELSE IF translator_fails = "KeyboardInterrupt"
       THEN [tag |-> "raise", value |-> translator_fails]
       ELSE [tag |-> "return", value |-> ""]

\* translate_text(text, target_lang, reverse); translator_fails is "no" or the
\* class of the exception the translator raises
translate_text(text, target_lang, reverse, translator_fails) ==
    LET source == IF reverse THEN "en" ELSE target_lang
        target == IF reverse THEN target_lang ELSE "en"
    IN IF translator_fails = "no"
       THEN [tag |-> "return", value |-> Translated(text, source, target)]
       ELSE [tag |-> "return", value |-> text]     \* bare except

\* ----------------------------------------------------- tools/pdf_tool.py
\* A text is a sequence of characters.  What page.extract_text() ends in: a
\* text, None, or an exception; pdfplumber.open ends in a document or an
\* exception.  The exceptions a document's bytes can cause are subclasses of
\* Exception.
PageTexts == {<<>>, <<"a">>, <<" ", "b", " ">>}
PdfErrors == {"PDFSyntaxError", "KeyError"}
PageOutcomes ==
    [kind : {"text"}, text : PageTexts, error : {""}]
        \cup [kind : {"none"}, text : {<<>>}, error : {""}]
        \cup [kind : {"raise"}, text : {<<>>}, error : PdfErrors]

RECURSIVE SeqsUpTo(_, _)
SeqsUpTo(S, n) ==
    IF n = 0 THEN {<<>>}
    ELSE SeqsUpTo(S, n - 1)
         \cup {Append(q, x) : q \in {r \in SeqsUpTo(S, n - 1) : Len(r) = n - 1}, x \in S}

Documents ==
    [open : {"ok"}, pages : SeqsUpTo(PageOutcomes, MaxPages), error : {""}]
        \cup [open : {"raise"}, pages : {<<>>}, error : PdfErrors]

\* str.strip() on a sequence of characters
RECURSIVE lstrip(_)
lstrip(t) == IF t /= <<>> /\ Head(t) = " " THEN lstrip(Tail(t)) ELSE t

RECURSIVE rstrip(_)
rstrip(t) ==
    IF t /= <<>> /\ t[Len(t)] = " " THEN rstrip(SubSeq(t, 1, Len(t) - 1)) ELSE t

strip(t) == rstrip(lstrip(t))

ErrorReadingPdf(error) == <<"Error reading PDF: ", error>>

\* mutant: "or ''" is missing, so text += None raises TypeError
page_text_or_empty_missing(p) ==
    IF p.kind = "none" THEN [tag |-> "raise", text |-> <<>>, error |-> "TypeError"]
    ELSE [tag |-> "ok", text |-> p.text, error |-> ""]

\* page.extract_text() or ""
page_text_or_empty(p) ==
    IF p.kind = "none" THEN [tag |-> "ok", text |-> <<>>, error |-> ""]
    ELSE [tag |-> "ok", text |-> p.text, error |-> ""]

\* the for loop over pdf.pages, text being what is collected so far
RECURSIVE extract_pages(_, _)
extract_pages(pages, text) ==
    IF pages = <<>> THEN [tag |-> "ok", text |-> text, error |-> ""]
    ELSE IF Head(pages).kind = "raise"
    THEN [tag |-> "raise", text |-> text, error |-> Head(pages).error]
    ELSE LET c == page_text_or_empty(Head(pages))
         IN IF c.tag = "raise" THEN c
            ELSE extract_pages(Tail(pages), text \o c.text)

\* extract_text_from_pdf(file_bytes), doc being what the bytes hold
extract_text_from_pdf(doc) ==
    IF doc.open = "raise"
    THEN [tag |-> "return", value |-> ErrorReadingPdf(doc.error)]
    ELSE LET r == extract_pages(doc.pages, <<>>)
         IN IF r.tag = "raise"
            THEN [tag |-> "return", value |-> ErrorReadingPdf(r.error)]
            ELSE [tag |-> "return", value |-> strip(r.text)]

\* -------------------------------------------------------------------- Init
Init ==
    /\ messages = <<>>
    /\ notes = <<>>
    /\ pc = "input"
    /\ user_input = NoInput
    /\ attempt = 0
    /\ payload = <<>>
    /\ requests_sent = 0
    /\ last_outcome = NoOutcome
    /\ response = NoneValue
    /\ exit_cause = "running"
    /\ json_error_class \in JsonErrorClasses
    /\ turn_log = <<>>
    /\ faults = 0
    /\ tool_call = NoCall

turn_vars == <<attempt, payload, requests_sent, last_outcome, response>>
const_vars == <<json_error_class, faults, tool_call>>

\* run(): the finally clause, then run() returns
SessionCleanup(cause) ==
    /\ messages' = clear_memory(messages)
    /\ notes' = clear_notes(notes)
    /\ turn_log' = <<>>
    /\ pc' = "exited"
    /\ exit_cause' = cause

\* ----------------------------------------------------------------- actions
\* run(): an empty line, "continue"
BlankInputOn(raw) ==
    /\ pc = "input"
    /\ line_dispatch[raw] = "continue"
    /\ UNCHANGED <<messages, notes, pc, user_input, exit_cause, turn_log>>
    /\ UNCHANGED turn_vars
    /\ UNCHANGED const_vars

BlankInput == \E raw \in RawLines : BlankInputOn(raw)

\* run() -> get_llm_response -> call_groq_api up to the first requests.post
ReadUtteranceOn(raw) ==
    /\ pc = "input"
    /\ Len(turn_log) < MaxTurns
    /\ line_dispatch[raw] = "chat"
    /\ user_input' = strip_line(raw)
    /\ payload' = build_payload(context_messages(messages, strip_line(raw)))
    /\ attempt' = 0
    /\ requests_sent' = 0
    /\ last_outcome' = NoOutcome
    /\ pc' = "post"
    /\ UNCHANGED <<messages, notes, response, exit_cause, turn_log>>
    /\ UNCHANGED const_vars

ReadUtterance == \E raw \in RawLines : ReadUtteranceOn(raw)

IsFault(o) == ~(o.kind = "ok" /\ Truthy(o.detail))

\* One requests.post of the retry loop and everything that follows it until the
\* program waits again.
PostRequest ==
    /\ pc = "post"
    /\ \E o \in Outcomes :
        LET step == retry_step(o, attempt, json_error_class)
        IN /\ IsFault(o) => (requests_sent > 0 \/ faults < MaxFaultyTurns)
           /\ faults' = IF IsFault(o) /\ requests_sent = 0 THEN faults + 1 ELSE faults
           /\ last_outcome' = o
           /\ requests_sent' = requests_sent + 1
           /\ CASE step.tag = "retry" ->
                     /\ attempt' = attempt + 1
                     /\ UNCHANGED <<messages, notes, pc, payload, response,
                                    exit_cause, turn_log>>
                [] step.tag = "return" ->
                     /\ messages' = memory_after_response(messages, user_input, step.value)
                     /\ response' = returned_text(step.value)
                     /\ turn_log' = Append(turn_log,
                                           [user |-> user_input,
                                            result |-> step.value,
                                            reply |-> returned_text(step.value)])
                     /\ payload' = <<>>
                     /\ attempt' = 0
                     /\ pc' = "input"
                     /\ UNCHANGED <<notes, exit_cause>>
                [] OTHER ->
                     \* the exception reaches "except Exception" of run()
                     /\ SessionCleanup("exception")
                     /\ payload' = <<>>
                     /\ attempt' = 0
                     /\ UNCHANGED response
    /\ UNCHANGED <<user_input, json_error_class, tool_call>>

\* handle_command: /quit and /exit
CommandQuitOn(raw) ==
    /\ pc = "input"
    /\ line_branch[raw] = "quit"
    /\ ~line_returns[raw]
    /\ SessionCleanup("quit")
    /\ UNCHANGED user_input
    /\ UNCHANGED turn_vars
    /\ UNCHANGED const_vars

CommandQuit == \E raw \in RawLines : CommandQuitOn(raw)

\* handle_command: /clear
\* mutant: /clear empties the scratchpad too
CommandClearOn_also_notes(raw) ==
    /\ pc = "input"
    /\ line_branch[raw] = "clear"
    /\ messages' = clear_memory(messages)
    /\ notes' = clear_notes(notes)
    /\ turn_log' = <<>>
    /\ UNCHANGED <<pc, user_input, exit_cause>>
    /\ UNCHANGED turn_vars
    /\ UNCHANGED const_vars

CommandClearOn(raw) ==
    /\ pc = "input"
    /\ line_branch[raw] = "clear"
    /\ messages' = clear_memory(messages)
    /\ turn_log' = <<>>
    /\ UNCHANGED <<notes, pc, user_input, exit_cause>>
    /\ UNCHANGED turn_vars
    /\ UNCHANGED const_vars

CommandClear == \E raw \in RawLines : CommandClearOn(raw)

\* handle_command: /scratchpad ..., handle_scratchpad_command
notes_after_scratchpad_command(ns, command) ==
    LET parts == scratchpad_parts(command)
    IN IF Len(parts) = 1 THEN ns
       ELSE IF parts[2] = "clear" THEN clear_notes(ns)
       ELSE add_note(ns, parts[2])

CommandScratchpadOn(raw) ==
    /\ pc = "input"
    /\ line_branch[raw] = "scratchpad"
    /\ notes' = notes_after_scratchpad_command(notes, lower_strip(strip_line(raw)))
    /\ Len(notes') <= MaxNotes
    /\ UNCHANGED <<messages, pc, user_input, exit_cause, turn_log>>
    /\ UNCHANGED turn_vars
    /\ UNCHANGED const_vars

CommandScratchpad == \E raw \in RawLines : CommandScratchpadOn(raw)

\* handle_command: /help, /status and unknown commands only print
CommandPrintOnlyOn(raw) ==
    /\ pc = "input"
    /\ line_branch[raw] \in {"help", "status", "unknown"}
    /\ line_returns[raw]
    /\ UNCHANGED <<messages, notes, pc, user_input, exit_cause, turn_log>>
    /\ UNCHANGED turn_vars
    /\ UNCHANGED const_vars

CommandPrintOnly == \E raw \in RawLines : CommandPrintOnlyOn(raw)

\* run(): one pass of the loop body on the line raw
RunLine(raw) ==
    \/ BlankInputOn(raw)
    \/ ReadUtteranceOn(raw)
    \/ CommandQuitOn(raw)
    \/ CommandClearOn(raw)
    \/ CommandScratchpadOn(raw)
    \/ CommandPrintOnlyOn(raw)

\* run(): input() raises EOFError, "break"
EndOfInput ==
    /\ pc = "input"
    /\ SessionCleanup("eof")
    /\ UNCHANGED user_input
    /\ UNCHANGED turn_vars
    /\ UNCHANGED const_vars

\* mutant: the handler ends the process at once (os._exit), no finally clause
SignalHandler_hard_exit ==
    /\ pc \in {"input", "post"}
    /\ pc' = "exited"
    /\ exit_cause' = "sigint"
    /\ UNCHANGED <<messages, notes, user_input, attempt, payload, requests_sent,
                   last_outcome, response, json_error_class, turn_log, faults,
                   tool_call>>

\* Ctrl+C.  main() installs signal_handler for SIGINT, so no KeyboardInterrupt
\* is raised: the handler calls sys.exit(0), SystemExit passes every except
\* clause of run(), and the finally clause runs.
SignalHandler ==
    /\ pc \in {"input", "post"}
    /\ SessionCleanup("sigint")
    /\ payload' = <<>>
    /\ attempt' = 0
    /\ UNCHANGED <<user_input, requests_sent, last_outcome, response>>
    /\ UNCHANGED const_vars

Next ==
    \/ BlankInput
    \/ ReadUtterance
    \/ PostRequest
    \/ CommandQuit
    \/ CommandClear
    \/ CommandScratchpad
    \/ CommandPrintOnly
    \/ EndOfInput
    \/ SignalHandler

Spec == Init /\ [][Next]_vars

\* --------------------------------------------------------- tools/ helpers
chatbot_vars == <<messages, notes, pc, user_input, attempt, payload,
                  requests_sent, last_outcome, response, exit_cause,
                  json_error_class, turn_log, faults>>

DetectLanguage ==
    /\ \E text \in Texts, detected \in LibraryOutcomes(Languages) :
          tool_call' = [fn |-> "detect_language", text |-> text,
                        failed |-> (detected.kind = "raise"),
                        result |-> detect_language(text, detected)]
    /\ UNCHANGED chatbot_vars

TranslateText ==
    /\ \E text \in Texts, lang \in Languages, reverse \in BOOLEAN,
          fails \in {"no"} \cup RaisedClasses :
          tool_call' = [fn |-> "translate_text", text |-> text,
                        target_lang |-> lang, reverse |-> reverse,
                        failed |-> (fails /= "no"),
                        result |-> translate_text(text, lang, reverse, fails)]
    /\ UNCHANGED chatbot_vars

ExtractTextFromPdf ==
    /\ \E doc \in Documents :
          tool_call' = [fn |-> "extract_text_from_pdf", doc |-> doc,
                        result |-> extract_text_from_pdf(doc)]
    /\ UNCHANGED chatbot_vars

NextTools ==
    \/ DetectLanguage
    \/ TranslateText
    \/ ExtractTextFromPdf

SpecTools == Init /\ [][NextTools]_vars

\* ============================================================ history views
\* The turns of the log whose reply was handed to add_exchange.
RecordedTurns == SelectSeq(turn_log, LAMBDA t : Truthy(t.result))

\* The role/content messages of a sequence of turns: message 2i-1 is the
\* utterance of turn i, message 2i its reply.
MessagesOfTurns(turns) ==
    [i \in 1..(2 * Len(turns)) |->
        IF i % 2 = 1
        THEN [role |-> "user", content |-> turns[(i + 1) \div 2].user]
        ELSE [role |-> "assistant", content |-> turns[i \div 2].reply]]

\* A step in which call_groq_api sends a request.
RequestSent == pc = "post" /\ requests_sent' = requests_sent + 1

\* ================================================================== claims

C2_KeepsLast10Exchanges ==
    get_context_messages(messages)
        = MessagesOfTurns(LastK(RecordedTurns, DocumentedMemorySize))

\* The failure string call_groq_api builds from a transient failure.
FinalErrorText(o) ==
    CASE o.kind = "timeout" -> TimeoutText
      [] o.kind = "status" -> ApiErrorText(o.detail)
      [] OTHER -> NetworkErrorText("connection failed")

\* C3: in one turn at most MAX_RETRIES requests are sent; a further request is
\* sent only after a timeout, a network error or a non-200 status; a 200
\* response with a well-formed body ends the attempts and its content is
\* returned; when every attempt failed transiently the failure string of the
\* final attempt is returned and nothing is raised.
C3_RetryCeiling ==
    [][RequestSent =>
         /\ requests_sent' <= MAX_RETRIES
         /\ requests_sent > 0 => last_outcome.kind \in TransientKinds
         /\ last_outcome'.kind = "ok" =>
                /\ pc' = "input"
                /\ turn_log' = Append(turn_log, turn_log'[Len(turn_log')])
                /\ turn_log'[Len(turn_log')].result = last_outcome'.detail
         /\ (requests_sent' = MAX_RETRIES /\ last_outcome'.kind \in TransientKinds) =>
                /\ pc' = "input"
                /\ turn_log' = Append(turn_log, turn_log'[Len(turn_log')])
                /\ turn_log'[Len(turn_log')].result = FinalErrorText(last_outcome')
      ]_vars

InvalidFormatTexts ==
    {InvalidFormatText(e) : e \in {"Expecting value", "'choices'",
                                   "list index out of range",
                                   "string indices must be integers"}}

\* C4: a 200 response whose body is not JSON or lacks the choices / message /
\* content shape is never retried: on any attempt call_groq_api sends no
\* further request and returns an 'Invalid API response format' string.
C4_MalformedNeverRetried ==
    [][(RequestSent /\ last_outcome'.kind \in MalformedKinds) =>
         /\ pc' = "input"
         /\ turn_log' = Append(turn_log, turn_log'[Len(turn_log')])
         /\ turn_log'[Len(turn_log')].result \in InvalidFormatTexts
      ]_vars

\* C5: no outcome of the inference call ends the service: every request either
\* is retried or ends the turn with a text returned to run(), and the chat
\* loop then waits for the next line.
C5_NoInferenceFailureEndsService ==
    [][RequestSent =>
         \/ pc' = "post" /\ attempt' = attempt + 1
         \/ pc' = "input" /\ response' \notin {"", NoneValue}
      ]_vars

\* C6: after every chat turn the text get_llm_response returned is the
\* assistant message of the newest exchange in memory, paired with the
\* utterance of that turn.
C6_ReplyIsRecorded ==
    turn_log /= <<>> =>
        /\ messages /= <<>>
        /\ messages[Len(messages)]
               = [user |-> turn_log[Len(turn_log)].user,
                  assistant |-> turn_log[Len(turn_log)].reply]

\* C7: the payload sent to inference holds exactly one system message, and it
\* is the first message.
C7_ExactlyOneSystemMessage ==
    pc = "post" =>
        /\ payload /= <<>>
        /\ payload[1].role = "system"
        /\ Cardinality({i \in DOMAIN payload : payload[i].role = "system"}) = 1

\* C7 witness: a retry is in flight with the memory full and a failure string
\* among the stored replies.
C7_FullMemoryInFlight ==
    /\ pc = "post"
    /\ Len(messages) = MAX_MEMORY_SIZE
    /\ \E i \in DOMAIN messages : messages[i].assistant \notin Replies

\* C8: the payload is the system directive, then the stored exchanges oldest
\* first, each as its user message followed by its assistant message, then the
\* current utterance as the final user message and nowhere else added by this
\* turn; it has at most 2 * max_size + 2 messages.
C8_FrameLayout ==
    pc = "post" =>
        LET n == Len(messages)
        IN /\ Len(payload) = 2 * n + 2
           /\ Len(payload) <= 2 * MAX_MEMORY_SIZE + 2
           /\ payload[1] = system_prompt
           /\ \A i \in 1..n :
                /\ payload[2 * i] = [role |-> "user", content |-> messages[i].user]
                /\ payload[2 * i + 1]
                       = [role |-> "assistant", content |-> messages[i].assistant]
           /\ payload[2 * n + 2] = [role |-> "user", content |-> user_input]

\* C8 witness: a second attempt is in flight with a full memory whose stored
\* utterances differ from one another and the current utterance repeats one.
C8_LongestFrameOnRetry ==
    /\ pc = "post"
    /\ attempt > 0
    /\ Len(payload) = 2 * MAX_MEMORY_SIZE + 2
    /\ messages[1].user /= messages[2].user
    /\ user_input = messages[1].user

\* C9: the number of stored messages never goes down in a step, except in a
\* step that clears the whole memory: /clear or the cleanup when run() ends.
C9_ShrinksOnlyByClear ==
    [][\/ Len(get_context_messages(messages')) >= Len(get_context_messages(messages))
       \/ CommandClear
       \/ (pc /= "exited" /\ pc' = "exited")
      ]_vars

\* C9 witness: add_exchange has acted on a full memory.
C9_AddedToFullMemory ==
    /\ Len(turn_log) = MAX_MEMORY_SIZE + 1
    /\ Len(RecordedTurns) = Len(turn_log)
    /\ Len(get_context_messages(messages)) = 2 * MAX_MEMORY_SIZE

\* C10: Ctrl+C abandons only the turn in flight (or the pending input): the
\* chat loop goes on to the next prompt, memory and scratchpad are as before.
C10_CtrlCAbandonsOnlyTheTurn ==
    [][SignalHandler =>
         /\ pc' = "input"
         /\ messages' = messages
         /\ notes' = notes
      ]_vars

QuitLines == {"/quit", "/exit", "/QUIT"}
OtherCommandLines == {"/help", "/status", "/scratchpad", "/bogus"}
AddNoteLines == {"/scratchpad Fuel"}
\* The text typed after the command word, trimmed.
TypedNote(raw) == IF raw = "/scratchpad Fuel" THEN "Fuel" ELSE ""

\* C12: /clear leaves the memory empty and the notes as they were;
\* /scratchpad clear leaves the scratchpad empty and the memory as it was;
\* /help, /status, /scratchpad and unknown commands leave the memory as it was.
C12_ClearsTouchOnlyTheirStore ==
    [][/\ ~(Len(messages') = 0 /\ notes' = notes) => ~RunLine("/clear")
       /\ ~(Len(notes') = 0 /\ messages' = messages) => ~RunLine("/scratchpad clear")
       /\ messages' /= messages => \A raw \in OtherCommandLines : ~RunLine(raw)
      ]_vars

\* C12 witness: /clear has emptied a memory that held a reply while the
\* scratchpad keeps its note.
C12_MemoryClearedNotesKept ==
    /\ pc = "input"
    /\ response \in Replies
    /\ Len(messages) = 0
    /\ turn_log = <<>>
    /\ Len(notes) > 0

\* C15: the memory never holds more than max_size exchanges and always equals
\* the most recent min(N, max_size) of the N exchanges added since the last
\* clear; an add to a full memory drops exactly the oldest exchange, keeps the
\* order of the others and puts the new exchange last.
C15_BoundedFifoWindow ==
    /\ [](/\ Len(messages) <= MAX_MEMORY_SIZE
          /\ Len(messages) = Min(Len(RecordedTurns), MAX_MEMORY_SIZE)
          /\ \A i \in 1..Len(messages) :
                LET t == RecordedTurns[Len(RecordedTurns) - Len(messages) + i]
                IN messages[i] = [user |-> t.user, assistant |-> t.reply])
    /\ [][(Len(RecordedTurns') = Len(RecordedTurns) + 1
              /\ Len(messages) = MAX_MEMORY_SIZE) =>
            /\ Len(messages') = MAX_MEMORY_SIZE
            /\ \A i \in 1..(MAX_MEMORY_SIZE - 1) : messages'[i] = messages[i + 1]
            /\ messages'[MAX_MEMORY_SIZE]
                   = [user |-> user_input, assistant |-> response']
         ]_vars

\* C15 witness: the oldest exchange has been dropped and the newest one, a
\* failure text, is last.
C15_OldestDroppedNewestLast ==
    /\ pc = "input"
    /\ Len(RecordedTurns) > MAX_MEMORY_SIZE
    /\ messages[MAX_MEMORY_SIZE] = [user |-> user_input, assistant |-> response]
    /\ response \notin Replies
    /\ messages[1].user /= RecordedTurns[1].user

\* C16: while a turn is in flight the memory does not change and every attempt
\* sends the same messages; utterance and reply are added together as one
\* exchange, so no stored exchange lacks its utterance or its reply.
C16_TurnCommitsAtomically ==
    /\ [](\A i \in DOMAIN messages :
             Truthy(messages[i].user) /\ Truthy(messages[i].assistant))
    /\ [][/\ pc' = "post" => messages' = messages
          /\ (pc = "post" /\ pc' = "post") => payload' = payload
          /\ (pc = "post" /\ pc' = "input") =>
                \/ messages' = messages
                \/ /\ Len(messages') > 0
                   /\ messages'[Len(messages')]
                          = [user |-> user_input, assistant |-> response']
                   /\ \A i \in 1..(Len(messages') - 1) :
                          \E j \in DOMAIN messages : messages'[i] = messages[j]
         ]_vars

\* C16 witness: the last attempt of a turn is in flight with exchanges stored.
C16_ThirdAttemptInFlight ==
    /\ pc = "post"
    /\ attempt = MAX_RETRIES - 1
    /\ requests_sent = MAX_RETRIES - 1
    /\ Len(messages) > 0

\* C17: a line that is empty after trimming or starts with '/' sends no
\* request and adds no exchange; any other line starts exactly one turn, with
\* the trimmed line as its utterance.
C17_OnlyChatLinesReachTheModel ==
    [][/\ ~(/\ pc' /= "post"
             /\ requests_sent' = requests_sent
             /\ payload' = payload
             /\ Len(messages') <= Len(messages)
             /\ \A i \in DOMAIN messages' : messages'[i] = messages[i])
            => \A raw \in BlankLines \cup CommandLines : ~RunLine(raw)
       /\ ~(/\ pc' = "post"
             /\ requests_sent' = 0
             /\ user_input' \in Utterances
             /\ payload'[Len(payload')] = [role |-> "user", content |-> user_input'])
            => \A raw \in RawLines \ (BlankLines \cup CommandLines) : ~RunLine(raw)
       /\ (pc = "input" /\ pc' = "post") => user_input' \in Utterances
      ]_vars

\* C17 witness: a command has acted and no request was ever sent.
C17_CommandsOnlyNoRequest ==
    /\ pc = "input"
    /\ Len(notes) > 0
    /\ requests_sent = 0
    /\ user_input = NoInput

\* C18: handle_command ends the loop exactly for /quit and /exit (lower-cased,
\* trimmed); after any other command the loop prompts again; run() ends only
\* on /quit, /exit, end of input or an exception other than KeyboardInterrupt,
\* never on a turn that returned a reply, failed or not.
C18_LoopEndsOnlyOnQuitEofException ==
    [][/\ ~(pc' = "exited" /\ exit_cause' = "quit")
            => \A raw \in QuitLines : ~RunLine(raw)
       /\ ~(pc' = "input" /\ exit_cause' = "running")
            => \A raw \in CommandLines \ QuitLines : ~RunLine(raw)
       /\ (pc /= "exited" /\ pc' = "exited") =>
            /\ exit_cause' \in {"quit", "eof", "exception", "sigint"}
            /\ exit_cause' = "quit" => \E raw \in QuitLines : RunLine(raw)
            /\ turn_log' = <<>> /\ response' = response
       /\ (RequestSent /\ response' /= response) => pc' = "input"
      ]_vars

\* C18 witness: the loop prompts again after a turn that returned a failure.
C18_PromptsAfterFailedReply ==
    /\ pc = "input"
    /\ exit_cause = "running"
    /\ turn_log /= <<>>
    /\ turn_log[Len(turn_log)].reply \notin Replies

\* C19: '/scratchpad <note>' appends exactly the text typed after the command
\* word, trimmed and otherwise unchanged, as the last note; the notes before it
\* keep content and order.
C19_NoteStoredAsTyped ==
    [][\A raw \in AddNoteLines : RunLine(raw) =>
          notes' = Append(notes, TypedNote(raw))
      ]_vars

\* C13: the language helpers never raise; when the detector fails
\* detect_language returns "en", and when the translator fails translate_text
\* returns its input text unchanged, to English and from English alike.
C13_LanguageHelpersFallBack ==
    /\ tool_call.fn = "detect_language" =>
          /\ tool_call.result.tag = "return"
          /\ tool_call.failed => tool_call.result.value = "en"
    /\ tool_call.fn = "translate_text" =>
          /\ tool_call.result.tag = "return"
          /\ tool_call.failed => tool_call.result.value = tool_call.text

\* C13 witness: a translation from English has failed on a non-empty text.
C13_ReverseTranslationFailed ==
    /\ tool_call.fn = "translate_text"
    /\ tool_call.reverse
    /\ tool_call.failed
    /\ tool_call.text = "bonjour"
    /\ tool_call.target_lang = "fr"

\* The pages of a document that opens and whose pages all extract, joined.
RECURSIVE JoinedPageTexts(_)
JoinedPageTexts(pages) ==
    IF pages = <<>> THEN <<>>
    ELSE (IF Head(pages).kind = "text" THEN Head(pages).text ELSE <<>>)
         \o JoinedPageTexts(Tail(pages))

DocumentFails(doc) ==
    doc.open = "raise" \/ \E i \in DOMAIN doc.pages : doc.pages[i].kind = "raise"

FirstError(doc) ==
    IF doc.open = "raise" THEN doc.error
    ELSE LET i == CHOOSE k \in DOMAIN doc.pages :
                     /\ doc.pages[k].kind = "raise"
                     /\ \A j \in 1..(k - 1) : doc.pages[j].kind /= "raise"
         IN doc.pages[i].error

\* C14: extract_text_from_pdf never raises; when opening the document or
\* extracting a page fails it returns 'Error reading PDF: ' and the failure,
\* never an empty text; a page without text adds nothing and is no failure, so
\* a document without failure gives the joined page texts, trimmed.
C14_PdfExtractionNeverRaises ==
    tool_call.fn = "extract_text_from_pdf" =>
        LET doc == tool_call.doc
            value == tool_call.result.value
            joined == JoinedPageTexts(doc.pages)
        IN /\ tool_call.result.tag = "return"
           /\ DocumentFails(doc) =>
                 /\ value = <<"Error reading PDF: ", FirstError(doc)>>
                 /\ value /= <<>>
           /\ ~DocumentFails(doc) =>
                 /\ \E i \in 1..(Len(joined) + 1), j \in 0..Len(joined) :
                       /\ value = SubSeq(joined, i, j)
                       /\ \A k \in (1..(i - 1)) \cup ((j + 1)..Len(joined)) :
                             joined[k] = " "
                 /\ value /= <<>> => (value[1] /= " " /\ value[Len(value)] /= " ")

\* C14 witness: a document whose first page has no text and whose second page
\* has text with blanks around it has been extracted.
C14_PageWithoutTextExtracted ==
    /\ tool_call.fn = "extract_text_from_pdf"
    /\ tool_call.doc.open = "ok"
    /\ Len(tool_call.doc.pages) = 2
    /\ tool_call.doc.pages[1].kind = "none"
    /\ tool_call.doc.pages[2].text = <<" ", "b", " ">>
    /\ tool_call.result.value = <<"b">>

====
